---------------------------- MODULE Spec2Model ----------------------------
(***************************************************************************)
(* A state-machine model of kuiskaus: push-to-talk capture, transcription  *)
(* and text injection.                                                     *)
(*                                                                         *)
(*   detector     hotkey_listener.py, hotkey_listener_cgevent.py           *)
(*   recorder     audio_recorder.py                                        *)
(*   transcriber  whisper_transcriber.py                                   *)
(*   inserter     text_inserter.py                                         *)
(*   orchestrator app.py, menubar.py                                       *)
(*                                                                         *)
(* Python threads interleave between bytecodes, so every handler is cut    *)
(* into one action per shared read or write; a thread is a record with a   *)
(* program counter pc.                                                     *)
(***************************************************************************)
EXTENDS Integers, Sequences, FiniteSets, TLC

VARIABLES
    \* ---- detector (HotkeyListener / HotkeyListenerCGEvent)
    det_kind,        \* "NSEvent" (hotkey_listener.py) or "CGEvent" (hotkey_listener_cgevent.py)
    is_pressed,      \* self.is_pressed
    running,         \* self.running
    handles,         \* observation handles installed (monitors, or tap + run-loop source)
    trusted,         \* AXIsProcessTrusted()
    last_flags,      \* flags of the previous notification delivered to the handler
    press_fired,     \* number of on_press callback threads started
    release_fired,   \* number of on_release callback threads started
    notified,        \* number of notifications delivered
    start_result     \* what the last call of start() returned

det_vars == <<det_kind, is_pressed, running, handles, trusted, last_flags,
              press_fired, release_fired, notified, start_result>>

VARIABLES
    \* ---- inserter (TextInserter) and the injection surface
    insert_lock,     \* self.insert_lock: None, or the index of the call holding it
    clipboard,       \* the pasteboard's string content: None when it holds no string
    clipboard0,      \* the pasteboard's content before the first call
    posted,          \* the synthetic events posted to the system input stream, in order
    ins,             \* the insert calls made so far, one record per call
    faults           \* number of failed event posts so far

ins_vars == <<insert_lock, clipboard, clipboard0, posted, ins, faults>>

VARIABLES
    \* ---- transcriber (WhisperTranscriber instances) and the inference engine
    USE_MLX,         \* the backend the imports selected (whisper_transcriber.py:8-21)
    trs,             \* the WhisperTranscriber instances constructed so far
    transcriber,     \* the orchestrator's self.transcriber: an index into trs
    calls,           \* the transcribe() calls made so far, one record per call
    swaps,           \* the _reload_model threads started so far
    tr_faults        \* number of model loads and engine calls that failed so far

tr_vars == <<USE_MLX, trs, transcriber, calls, swaps, tr_faults>>

VARIABLES
    \* ---- recorder (AudioRecorder) and the audio device
    recording,        \* self.recording
    audio_queue,      \* self.audio_queue: the index in queues of the current Queue object
    queues,           \* every Queue object created so far: its frames, oldest first
    recording_thread, \* self.recording_thread: 0 for None, else an index into workers
    stream,           \* self.stream: 0 for None, else the stream's number
    open_streams,     \* the input streams that are open on the device
    workers,          \* the _recording_worker threads created so far
    rec_faults        \* number of failed device opens and reads so far

rec_vars == <<recording, audio_queue, queues, recording_thread, stream,
              open_streams, workers, rec_faults>>

VARIABLES
    \* ---- orchestrator (KuiskausApp / KuiskausMenuBarApp)
    app_kind,              \* "cli" (app.py) or "menubar" (menubar.py)
    enabled,               \* menubar.py: self.enabled
    is_recording,          \* self.is_recording
    recording_start_time,  \* self.recording_start_time: -1 for None
    total_transcriptions,  \* self.total_transcriptions
    total_recording_time,  \* self.total_recording_time
    clock,                 \* time.time(): one tick per reading
    held,                  \* the listener's is_pressed: the combo is held
    cbs,                   \* the on_press / on_release callback threads started so far
    tasks                  \* the _transcribe_and_insert threads started so far

orch_vars == <<is_recording, recording_start_time, total_transcriptions,
               total_recording_time, clock, held, cbs, tasks, app_kind, enabled>>

vars == <<det_vars, ins_vars, tr_vars, rec_vars, orch_vars>>

\* what the actions of one component leave alone
not_det == <<ins_vars, tr_vars, rec_vars, orch_vars>>
not_ins == <<det_vars, tr_vars, rec_vars, orch_vars>>
not_tr == <<det_vars, ins_vars, rec_vars, orch_vars>>

\* Python's None, for a clipboard without string content
None == [has |-> FALSE, str |-> <<>>]
Str(t) == [has |-> TRUE, str |-> t]

-----------------------------------------------------------------------------
(* Detector                                                                *)

\* Number of modifier-change notifications delivered in one behaviour.
MaxNotify == 4

\* hotkey_listener.py:10
NSFlagsChangedMask == 4096
\* NSEvent.type() of a modifier-flags-changed event (NSEventTypeFlagsChanged),
\* the only type the mask 1 << 12 selects.
NSEventTypeFlagsChanged == 12
\* Quartz.kCGEventFlagsChanged
kCGEventFlagsChanged == 12

\* 1 << 18, 1 << 19, 1 << 20 as bit positions
ControlBit == 18
AlternateBit == 19
CommandBit == 20
ShiftBit == 17
\* a device-dependent low bit that real flag words carry
DeviceBit == 8

Pow2(n) == 2 ^ n

\* bool(flags & (1 << k))
HasBit(flags, k) == (flags \div Pow2(k)) % 2 = 1

ModBits == {DeviceBit, ShiftBit, ControlBit, AlternateBit, CommandBit}

RECURSIVE SumBits(_)
SumBits(S) == IF S = {} THEN 0
              ELSE LET k == CHOOSE x \in S : TRUE
                   IN  Pow2(k) + SumBits(S \ {k})

\* every modifier bitmask over ModBits
FlagSet == {SumBits(S) : S \in SUBSET ModBits}

\* _check_modifiers: has_control and has_option and not has_command
check_modifiers(flags) ==
    /\ HasBit(flags, ControlBit)
    /\ HasBit(flags, AlternateBit)
    /\ ~HasBit(flags, CommandBit)

\* The type of the event the OS hands the handler, per listener.
DeliveredType == IF det_kind = "NSEvent" THEN NSEventTypeFlagsChanged
                 ELSE kCGEventFlagsChanged

\* The value the handler compares the event type with:
\* `event_type == NSFlagsChangedMask` / `type_ == Quartz.kCGEventFlagsChanged`
AcceptedType == IF det_kind = "NSEvent" THEN NSFlagsChangedMask
                ELSE kCGEventFlagsChanged

DetInit ==
    /\ det_kind \in {"NSEvent", "CGEvent"}
    /\ is_pressed = FALSE
    /\ running = FALSE
    /\ handles = {}
    /\ trusted \in BOOLEAN
    /\ last_flags = 0
    /\ press_fired = 0
    /\ release_fired = 0
    /\ notified = 0
    /\ start_result = "unset"

\* The user grants the input-monitoring capability in the OS settings.
GrantPermission ==
    /\ ~trusted
    /\ trusted' = TRUE
    /\ UNCHANGED <<det_kind, is_pressed, running, handles, last_flags,
                   press_fired, release_fired, notified, start_result>>
    /\ UNCHANGED not_det

\* The handles start() creates; creation may fail (None).
HandleChoices ==
    IF det_kind = "NSEvent"
    THEN SUBSET {"local_monitor", "monitor"}
    ELSE {{}, {"tap", "run_loop_source"}}

\* What start() returns once it has created the handles h: False when
\* the process is not trusted (`return False` before any handle is made) or
\* when no handle came back (`if not self.tap` / the else of
\* `if self.monitor or self.local_monitor`), True otherwise.
StartReturnsTrue(h) == "True"
StartReturns(h) == IF ~trusted \/ h = {} THEN "False" ELSE "True"

\* start(): `if not self.running:` sets running first, then checks the
\* permission and creates the handles; a call while running does nothing
\* and falls off the end of the function (None).
start ==
    /\ IF running
       THEN /\ UNCHANGED <<running, handles>>
            /\ start_result' = "None"
       ELSE /\ running' = TRUE
            /\ IF ~trusted
               THEN UNCHANGED handles
               ELSE \E h \in HandleChoices : handles' = h
            /\ start_result' = StartReturns(handles')
    /\ UNCHANGED <<det_kind, is_pressed, trusted, last_flags,
                   press_fired, release_fired, notified>>
    /\ UNCHANGED not_det

\* _handle_event / _event_tap_callback on one notification carrying `flags`.
handle_event(flags) ==
    /\ handles # {}
    /\ notified < MaxNotify
    /\ notified' = notified + 1
    /\ last_flags' = flags
    /\ IF DeliveredType = AcceptedType
       THEN LET modifiers_pressed == check_modifiers(flags) IN
            IF modifiers_pressed /\ ~is_pressed
            THEN /\ is_pressed' = TRUE
                 /\ press_fired' = press_fired + 1
                 /\ UNCHANGED release_fired
            ELSE IF ~modifiers_pressed /\ is_pressed
            THEN /\ is_pressed' = FALSE
                 /\ release_fired' = release_fired + 1
                 /\ UNCHANGED press_fired
            ELSE UNCHANGED <<is_pressed, press_fired, release_fired>>
       ELSE UNCHANGED <<is_pressed, press_fired, release_fired>>
    /\ UNCHANGED <<det_kind, running, handles, trusted, start_result>>
    /\ UNCHANGED not_det

Notify == \E flags \in FlagSet : handle_event(flags)

\* The handles a stop() of a running listener leaves installed: it removes
\* monitor and local_monitor when set / disables the tap and removes its
\* run loop source, and sets the attributes to None.
HandlesKept(h) == h
HandlesAfterStop(h) == {}

\* stop(): `if self.running:` removes the handles and resets running and
\* is_pressed; a call while not running does nothing.  The history of
\* delivered flags starts afresh with the next start().
stop ==
    /\ IF running
       THEN /\ handles' = HandlesAfterStop(handles)
            /\ running' = FALSE
            /\ is_pressed' = FALSE
            /\ last_flags' = 0
       ELSE UNCHANGED <<handles, running, is_pressed, last_flags>>
    /\ UNCHANGED <<det_kind, trusted, press_fired, release_fired, notified,
                   start_result>>
    /\ UNCHANGED not_det

DetNext == start \/ stop \/ GrantPermission \/ Notify

DetOff ==
    /\ det_kind = "CGEvent"
    /\ is_pressed = FALSE
    /\ running = FALSE
    /\ handles = {}
    /\ trusted = TRUE
    /\ last_flags = 0
    /\ press_fired = 0
    /\ release_fired = 0
    /\ notified = 0
    /\ start_result = "unset"

-----------------------------------------------------------------------------
(* Inserter                                                                *)

\* Number of insert calls made in one behaviour.
MaxCalls == 2
\* Number of event posts that fail in one behaviour.
MaxFaults == 1

\* text_inserter.py:110  `len(text) > 10`
PasteThreshold == 10

\* A text of n characters; the characters are numbered so that texts of
\* different lengths differ.
TextOf(n) == [k \in 1..n |-> k]

ShortLen == 2
\* the length of a whole sentence, "hello there friend"
SentenceLen == 18
Texts == {TextOf(0), TextOf(ShortLen), TextOf(PasteThreshold), TextOf(PasteThreshold + 1),
          TextOf(SentenceLen)}

\* the clipboard before the first call: no string, or some string
OldText == <<99>>
ClipboardStates == {None, Str(OldText)}

\* _simulate_paste posts four events
PasteEvents == <<"cmd_down", "v_down", "v_up", "cmd_up">>

InsInit ==
    /\ insert_lock = 0
    /\ clipboard0 \in ClipboardStates
    /\ clipboard = clipboard0
    /\ posted = <<>>
    /\ ins = <<>>
    /\ faults = 0

InsOff ==
    /\ insert_lock = 0
    /\ clipboard0 = None
    /\ clipboard = None
    /\ posted = <<>>
    /\ ins = <<>>
    /\ faults = 0

\* a choice of strategy that pastes from the threshold on
UsePasteFrom(text, use_paste) == use_paste /\ Len(text) >= PasteThreshold
\* insert_text's choice of strategy: `if use_paste and len(text) > 10`
UsePaste(text, use_paste) == use_paste /\ Len(text) > PasteThreshold

\* an insert call: its locals, the strategy it runs (paste) and the
\* clipboard it found when it took the lock (entry)
NewCall(op, text, pc) ==
    [op |-> op, text |-> text, pc |-> pc, old_content |-> None, i |-> 1,
     paste |-> (pc = "lock_paste"), entry |-> clipboard, raising |-> FALSE,
     use_paste |-> TRUE]

\* an insert_text that does not look for empty text
NoTextNever(text) == FALSE
\* `if not text:`
NoText(text) == text = <<>>

\* insert_text(text, use_paste): returns at once on empty text, else
\* enters insert_text_paste or insert_text_typing.
InsertText(text, use_paste) ==
    [NewCall("insert_text", text,
             IF NoText(text) THEN "done"
             ELSE IF UsePaste(text, use_paste) THEN "lock_paste"
             ELSE "lock_typing")
     EXCEPT !.use_paste = use_paste]

insert_text(text, use_paste) ==
    /\ ins' = Append(ins, InsertText(text, use_paste))
    /\ UNCHANGED <<insert_lock, clipboard, clipboard0, posted, faults>>
    /\ UNCHANGED not_ins

\* a direct call of insert_text_typing(text) or insert_text_paste(text)
insert_direct(op, text) ==
    /\ ins' = Append(ins, NewCall(op, text,
                 IF op = "insert_text_paste" THEN "lock_paste" ELSE "lock_typing"))
    /\ UNCHANGED <<insert_lock, clipboard, clipboard0, posted, faults>>
    /\ UNCHANGED not_ins

Goto(c, pc) == ins' = [ins EXCEPT ![c].pc = pc]

\* a lock handed out in the order of the calls
LockInTurn(c) ==
    insert_lock = 0 /\ \A d \in 1..(c - 1) : ins[d].pc \in {"done", "raised"}
\* threading.Lock: any waiting caller may get the free lock
LockFree(c) == insert_lock = 0

\* `with self.insert_lock:` entry, blocking until the lock is free
acquire_insert_lock(c) ==
    /\ ins[c].pc \in {"lock_typing", "lock_paste"}
    /\ LockFree(c)
    /\ insert_lock' = c
    /\ ins' = [ins EXCEPT ![c].entry = clipboard,
                          ![c].pc = IF ins[c].pc = "lock_paste" THEN "save"
                                    ELSE IF ins[c].text = <<>> THEN "unlock"
                                    ELSE "key_down"]
    /\ UNCHANGED <<clipboard, clipboard0, posted, faults>>
    /\ UNCHANGED not_ins

\* an event post fails: the exception leaves the `with` block through
\* its finally clause, if any
PostFails(c, next) ==
    /\ faults < MaxFaults
    /\ faults' = faults + 1
    /\ ins' = [ins EXCEPT ![c].pc = next, ![c].raising = TRUE]
    /\ UNCHANGED <<insert_lock, clipboard, clipboard0, posted>>

Post(c, ev) == posted' = Append(posted, [by |-> c, ev |-> ev])

\* _type_character: key-down then key-up for text[i]
type_character(c) ==
    /\ ins[c].pc \in {"key_down", "key_up"}
    /\ UNCHANGED not_ins
    /\ \/ /\ Post(c, <<ins[c].pc, ins[c].text[ins[c].i]>>)
          /\ IF ins[c].pc = "key_down"
             THEN Goto(c, "key_up")
             ELSE IF ins[c].i < Len(ins[c].text)
             THEN ins' = [ins EXCEPT ![c].pc = "key_down", ![c].i = @ + 1]
             ELSE Goto(c, "unlock")
          /\ UNCHANGED <<insert_lock, clipboard, clipboard0, faults>>
       \/ PostFails(c, "unlock")

\* old_content = pasteboard.stringForType_(NSPasteboardTypeString)
paste_save(c) ==
    /\ ins[c].pc = "save"
    /\ ins' = [ins EXCEPT ![c].pc = "clear", ![c].old_content = clipboard]
    /\ UNCHANGED <<insert_lock, clipboard, clipboard0, posted, faults>>
    /\ UNCHANGED not_ins

\* pasteboard.clearContents()
paste_clear(c) ==
    /\ ins[c].pc = "clear"
    /\ clipboard' = None
    /\ Goto(c, "set")
    /\ UNCHANGED <<insert_lock, clipboard0, posted, faults>>
    /\ UNCHANGED not_ins

\* pasteboard.setString_forType_(text, NSPasteboardTypeString)
paste_set(c) ==
    /\ ins[c].pc = "set"
    /\ clipboard' = Str(ins[c].text)
    /\ ins' = [ins EXCEPT ![c].pc = "paste_key", ![c].i = 1]
    /\ UNCHANGED <<insert_lock, clipboard0, posted, faults>>
    /\ UNCHANGED not_ins

\* _simulate_paste: Cmd down, v down, v up, Cmd up
simulate_paste(c) ==
    /\ ins[c].pc = "paste_key"
    /\ UNCHANGED not_ins
    /\ \/ /\ Post(c, <<PasteEvents[ins[c].i], 0>>)
          /\ IF ins[c].i < Len(PasteEvents)
             THEN ins' = [ins EXCEPT ![c].i = @ + 1]
             ELSE Goto(c, "restore")
          /\ UNCHANGED <<insert_lock, clipboard, clipboard0, faults>>
       \/ PostFails(c, "restore")

\* the finally clause's test: `if old_content is not None`
ShouldRestore(old_content) == old_content.has

\* finally: restore the clipboard when a string was saved
paste_restore(c) ==
    /\ ins[c].pc \in {"restore", "restore_set"}
    /\ IF ins[c].pc = "restore"
       THEN IF ShouldRestore(ins[c].old_content)
            THEN clipboard' = None /\ Goto(c, "restore_set")
            ELSE UNCHANGED clipboard /\ Goto(c, "unlock")
       ELSE clipboard' = ins[c].old_content /\ Goto(c, "unlock")
    /\ UNCHANGED <<insert_lock, clipboard0, posted, faults>>
    /\ UNCHANGED not_ins

\* a lock that stays held when its block is left by an exception
InsertLockKeptOnRaise(raising) == ~raising
\* `with self.insert_lock:` releases the lock however the block is left
InsertLockReleased(raising) == TRUE

\* leaving `with self.insert_lock:`, normally or by the exception
release_insert_lock(c) ==
    /\ ins[c].pc = "unlock"
    /\ insert_lock' = IF InsertLockReleased(ins[c].raising) THEN 0 ELSE insert_lock
    /\ Goto(c, IF ins[c].raising THEN "raised" ELSE "done")
    /\ UNCHANGED <<clipboard, clipboard0, posted, faults>>
    /\ UNCHANGED not_ins

\* a caller enters insert_text, insert_text_typing or insert_text_paste
InsAnyCall ==
    \/ \E text \in Texts, use_paste \in BOOLEAN : insert_text(text, use_paste)
    \/ \E op \in {"insert_text_typing", "insert_text_paste"} :
          insert_direct(op, TextOf(ShortLen))

InsCall == Len(ins) < MaxCalls /\ InsAnyCall

InsStep ==
    \/ \E c \in 1..Len(ins) : acquire_insert_lock(c)
    \/ \E c \in 1..Len(ins) : type_character(c)
    \/ \E c \in 1..Len(ins) : paste_save(c)
    \/ \E c \in 1..Len(ins) : paste_clear(c)
    \/ \E c \in 1..Len(ins) : paste_set(c)
    \/ \E c \in 1..Len(ins) : simulate_paste(c)
    \/ \E c \in 1..Len(ins) : paste_restore(c)
    \/ \E c \in 1..Len(ins) : release_insert_lock(c)

InsNext == InsCall \/ InsStep

-----------------------------------------------------------------------------
(* Transcriber                                                             *)

\* Number of transcribe() calls, of model swaps and of load or engine
\* failures in one behaviour.
MaxTranscribe == 2
MaxSwaps == 1
MaxTrFaults == 1

\* whisper_transcriber.py:118  min_length = int(0.1 * 16000)
min_length == 1600

\* An audio array: its dtype and its samples. A sample is held as the
\* integer 32768 * value, which is exact for the float32 samples the
\* recorder produces (int16 / 32768.0) and for int16 samples.
Audio(dtype, data) == [dtype |-> dtype, data |-> data]
EmptyAudio == Audio("float32", <<>>)

\* audio.astype(np.float32) when the dtype differs: the values are kept
AsFloat32(audio) ==
    IF audio.dtype # "float32" THEN Audio("float32", audio.data) ELSE audio

\* a padding that puts the zeros before the samples
PadLeading(audio) ==
    IF Len(audio.data) < min_length
    THEN Audio(audio.dtype,
               [k \in 1..(min_length - Len(audio.data)) |-> 0] \o audio.data)
    ELSE audio

\* np.pad(audio, (0, min_length - len(audio)), mode='constant') when
\* len(audio) < min_length
PadAudio(audio) ==
    IF Len(audio.data) < min_length
    THEN Audio(audio.dtype,
               audio.data \o [k \in 1..(min_length - Len(audio.data)) |-> 0])
    ELSE audio

\* the texts the engine may return: blanks only (0 is a blank), a short
\* text with blanks around it, or a text longer than the paste threshold
\* after a leading blank
EngineTexts == {<<0>>, <<0, 1, 2, 0>>, <<0>> \o TextOf(PasteThreshold + 1)}

\* A float that is a quotient of integers, in lowest terms
RECURSIVE GCD(_, _)
GCD(a, b) == IF b = 0 THEN a ELSE GCD(b, a % b)
Ratio(a, b) == [num |-> a \div GCD(a, b), den |-> b \div GCD(a, b)]

\* a division the wrong way round
QuotientInverse(a, b) == Ratio(b.num * a.den, b.den * a.num)
\* a / b for floats, b not zero
Quotient(a, b) == Ratio(a.num * b.den, a.den * b.num)

\* time.time() - start_time around one engine call, in tenths of a second
EngineLatencies == {1, 3}

\* timed: the result has the keys transcribe_time, audio_duration and rtf
NoResult == [ok |-> FALSE, text |-> <<>>, n |-> 0, timed |-> FALSE,
             transcribe_time |-> Ratio(0, 1), audio_duration |-> Ratio(0, 1),
             rtf |-> Ratio(0, 1)]
\* {"text": "", "segments": [], "language": "en"}
EmptyResult == [NoResult EXCEPT !.ok = TRUE]

\* WhisperTranscriber.__init__: no model, a fresh lock, the load thread started
NewTranscriber(model_name) ==
    [model_name |-> model_name, model |-> 0, lock |-> 0, load |-> "start",
     cleaned |-> FALSE]

\* a transcribe() call on instance k
NewTranscribe(k, audio) ==
    [tr |-> k, input |-> audio, audio |-> audio, pc |-> "ensure",
     result |-> NoResult, raising |-> FALSE]

ModelNames == {"turbo", "base"}

TrInit ==
    /\ USE_MLX \in BOOLEAN
    /\ trs = <<NewTranscriber("turbo")>>
    /\ transcriber = 1
    /\ calls = <<>>
    /\ swaps = <<>>
    /\ tr_faults = 0

TrOff ==
    /\ USE_MLX = TRUE
    /\ trs = <<>>
    /\ transcriber = 0
    /\ calls = <<>>
    /\ swaps = <<>>
    /\ tr_faults = 0

\* self.load_thread.is_alive()
\* a load thread that is never seen alive
is_alive_never(k) == FALSE
\* self.load_thread.is_alive()
is_alive(k) == trs[k].load \in {"start", "loading"}

\* _load_model: `with self.model_lock:` entry
load_acquire(k) ==
    /\ trs[k].load = "start"
    /\ trs[k].lock = 0
    /\ trs' = [trs EXCEPT ![k].lock = -1, ![k].load = "loading"]
    /\ UNCHANGED <<USE_MLX, transcriber, calls, swaps, tr_faults>>
    /\ UNCHANGED not_tr

\* _load_model: the model is loaded and stored, or the load raises; either
\* way the lock is released and the thread ends
load_model(k) ==
    /\ trs[k].load = "loading"
    /\ \/ /\ trs' = [trs EXCEPT ![k].model = k, ![k].lock = 0, ![k].load = "done"]
          /\ UNCHANGED tr_faults
       \/ /\ tr_faults < MaxTrFaults
          /\ tr_faults' = tr_faults + 1
          /\ trs' = [trs EXCEPT ![k].lock = 0, ![k].load = "failed"]
    /\ UNCHANGED <<USE_MLX, transcriber, calls, swaps>>
    /\ UNCHANGED not_tr

\* a caller enters self.transcriber.transcribe(audio)
call_transcribe(audio) ==
    /\ calls' = Append(calls, NewTranscribe(transcriber, audio))
    /\ UNCHANGED <<USE_MLX, trs, transcriber, swaps, tr_faults>>
    /\ UNCHANGED not_tr

\* ensure_model_loaded: returns once the load thread is not alive
ensure_model_loaded(c) ==
    /\ calls[c].pc = "ensure"
    /\ ~is_alive(calls[c].tr)
    /\ calls' = [calls EXCEPT ![c].pc = "prepare"]
    /\ UNCHANGED <<USE_MLX, trs, transcriber, swaps, tr_faults>>
    /\ UNCHANGED not_tr

\* `len(audio) == 0`
IsEmpty(audio) == Len(audio.data) = 0

\* transcribe lines 110-120: empty audio returns at once; otherwise the
\* audio is cast to float32 and padded
prepare(c) ==
    /\ calls[c].pc = "prepare"
    /\ IF IsEmpty(calls[c].audio)
       THEN calls' = [calls EXCEPT ![c].pc = "returned", ![c].result = EmptyResult]
       ELSE calls' = [calls EXCEPT ![c].pc = "lock",
                                   ![c].audio = PadAudio(AsFloat32(@))]
    /\ UNCHANGED <<USE_MLX, trs, transcriber, swaps, tr_faults>>
    /\ UNCHANGED not_tr

\* `with self.model_lock:` entry, blocking until the lock is free
acquire_model_lock(c) ==
    /\ calls[c].pc = "lock"
    /\ trs[calls[c].tr].lock = 0
    /\ trs' = [trs EXCEPT ![calls[c].tr].lock = c]
    /\ calls' = [calls EXCEPT ![c].pc = "invoke"]
    /\ UNCHANGED <<USE_MLX, transcriber, swaps, tr_faults>>
    /\ UNCHANGED not_tr

\* the engine is invoked on the audio: mlx_whisper.transcribe(audio, ...)
\* or self.model.transcribe(audio, ...), which raises when self.model is None
invoke_engine(c) ==
    /\ calls[c].pc = "invoke"
    /\ IF ~USE_MLX /\ trs[calls[c].tr].model = 0
       THEN calls' = [calls EXCEPT ![c].pc = "unlock", ![c].raising = TRUE]
       ELSE calls' = [calls EXCEPT ![c].pc = "engine"]
    /\ UNCHANGED <<USE_MLX, trs, transcriber, swaps, tr_faults>>
    /\ UNCHANGED not_tr

\* the engine returns a result, to which the timing fields are added:
\*   result["transcribe_time"] = transcribe_time
\*   result["audio_duration"] = len(audio) / 16000.0
\*   result["rtf"] = transcribe_time / result["audio_duration"]
\* (a ZeroDivisionError when the duration is zero), or the engine raises
engine_return(c) ==
    /\ calls[c].pc = "engine"
    /\ \/ /\ \E text \in EngineTexts, elapsed \in EngineLatencies :
               LET n == Len(calls[c].audio.data)
                   transcribe_time == Ratio(elapsed, 10)
                   audio_duration == Ratio(n, 16000)
               IN  IF n = 0
                   THEN calls' = [calls EXCEPT ![c].pc = "unlock",
                                               ![c].raising = TRUE]
                   ELSE calls' = [calls EXCEPT ![c].pc = "unlock",
                          ![c].result =
                              [ok |-> TRUE, text |-> text, n |-> n,
                               timed |-> TRUE,
                               transcribe_time |-> transcribe_time,
                               audio_duration |-> audio_duration,
                               rtf |-> Quotient(transcribe_time, audio_duration)]]
          /\ UNCHANGED tr_faults
       \/ /\ tr_faults < MaxTrFaults
          /\ tr_faults' = tr_faults + 1
          /\ calls' = [calls EXCEPT ![c].pc = "unlock", ![c].raising = TRUE]
    /\ UNCHANGED <<USE_MLX, trs, transcriber, swaps>>
    /\ UNCHANGED not_tr

\* a lock that stays held when its block is left by an exception
ModelLockKeptOnRaise(raising) == ~raising
\* a lock that stays held when its block is left by the return
ModelLockKeptOnReturn(raising) == raising
\* `with self.model_lock:` releases the lock however the block is left
ModelLockReleased(raising) == TRUE

\* leaving `with self.model_lock:`, by the return or by the exception
release_model_lock(c) ==
    /\ calls[c].pc = "unlock"
    /\ trs' = [trs EXCEPT ![calls[c].tr].lock =
                  IF ModelLockReleased(calls[c].raising) THEN 0 ELSE @]
    /\ calls' = [calls EXCEPT ![c].pc = IF calls[c].raising THEN "raised"
                                        ELSE "returned"]
    /\ UNCHANGED <<USE_MLX, transcriber, swaps, tr_faults>>
    /\ UNCHANGED not_tr

\* change_model(model_name): starts a _reload_model thread
change_model(model_name) ==
    /\ swaps' = Append(swaps, [pc |-> "read", old |-> 0, new |-> 0,
                               model_name |-> model_name])
    /\ UNCHANGED <<USE_MLX, trs, transcriber, calls, tr_faults>>
    /\ UNCHANGED not_tr

\* WhisperTranscriber.cleanup: `if not USE_MLX and self.model:` drops the model
cleanup(k) ==
    IF ~USE_MLX /\ trs[k].model # 0
    THEN trs' = [trs EXCEPT ![k].model = 0, ![k].cleaned = TRUE]
    ELSE UNCHANGED trs

\* _reload_model, one statement at a time:
\*   old_transcriber = self.transcriber
\*   WhisperTranscriber(model_name=model_name)   (the constructor call)
\*   self.transcriber = <the new instance>
\*   old_transcriber.cleanup()
reload_model(s) ==
    /\ swaps[s].pc # "done"
    /\ IF swaps[s].pc = "read"
       THEN /\ swaps' = [swaps EXCEPT ![s].pc = "construct", ![s].old = transcriber]
            /\ UNCHANGED <<trs, transcriber>>
       ELSE IF swaps[s].pc = "construct"
       THEN /\ trs' = Append(trs, NewTranscriber(swaps[s].model_name))
            /\ swaps' = [swaps EXCEPT ![s].pc = "assign", ![s].new = Len(trs) + 1]
            /\ UNCHANGED transcriber
       ELSE IF swaps[s].pc = "assign"
       THEN /\ transcriber' = swaps[s].new
            /\ swaps' = [swaps EXCEPT ![s].pc = "cleanup"]
            /\ UNCHANGED trs
       ELSE /\ cleanup(swaps[s].old)
            /\ swaps' = [swaps EXCEPT ![s].pc = "done"]
            /\ UNCHANGED transcriber
    /\ UNCHANGED <<USE_MLX, calls, tr_faults>>
    /\ UNCHANGED not_tr

\* the audio arrays handed to transcribe() directly
InputLens == {0, 1, 2, 3, min_length \div 2, min_length - 1, min_length,
              min_length + 1, 2 * min_length, 20 * min_length}
Ramp(n, v) == [k \in 1..n |-> v * k]
AudioInputs ==
    {Audio(d, Ramp(n, v)) : d \in {"float32", "int16"}, n \in InputLens, v \in {1, -1}}

\* the audio arrays of the concurrency checks: empty, or one sample
SmallInputs == {EmptyAudio, Audio("float32", Ramp(1, 1))}

LoadStep ==
    \/ \E k \in 1..Len(trs) : load_acquire(k)
    \/ \E k \in 1..Len(trs) : load_model(k)

TranscribeStep ==
    \/ \E c \in 1..Len(calls) : ensure_model_loaded(c)
    \/ \E c \in 1..Len(calls) : prepare(c)
    \/ \E c \in 1..Len(calls) : acquire_model_lock(c)
    \/ \E c \in 1..Len(calls) : invoke_engine(c)
    \/ \E c \in 1..Len(calls) : engine_return(c)
    \/ \E c \in 1..Len(calls) : release_model_lock(c)

SwapStep == \E s \in 1..Len(swaps) : reload_model(s)

-----------------------------------------------------------------------------
(* Recorder                                                                *)

\* Number of frames one worker reads, and of device reads that fail.
MaxFrames == 1
MaxRecFaults == 1

\* chunk_size passed to AudioRecorder(...): samples per frame
chunk_size == 1

RecInit ==
    /\ recording = FALSE
    /\ audio_queue = 1
    /\ queues = << <<>> >>
    /\ recording_thread = 0
    /\ stream = 0
    /\ open_streams = {}
    /\ workers = <<>>
    /\ rec_faults = 0

RecOff == RecInit

\* the k-th sample of the frame worker w reads as its n-th: an int16, not
\* zero, the largest and the smallest int16 among them
Sample(w, n, k) ==
    IF w = 0 THEN 0
    ELSE IF n % 2 = 1 THEN 32767 - 100 * (w - 1) - (n - 1) - (k - 1)
    ELSE -32768 + 100 * (w - 1) + (n - 2) + (k - 1)

\* the frame worker w reads as its n-th: chunk_size int16 samples
Frame(w, n) == [by |-> w, pcm |-> [k \in 1..chunk_size |-> Sample(w, n, k)]]

\* the worker threads inside their `while self.recording` loop
InLoop == {w \in 1..Len(workers) : workers[w].pc \in {"loop", "read", "put"}}
\* the worker threads that are running
Running == {w \in 1..Len(workers) :
              workers[w].pc \in {"open", "loop", "read", "put", "stop", "close", "clear"}}

SetWorker(w, pc) == workers' = [workers EXCEPT ![w].pc = pc]

\* _recording_worker: self.stream = self.pyaudio.open(...). When open()
\* raises, nothing in the thread catches it: the thread ends there.
worker_open(w) ==
    /\ workers[w].pc = "open"
    /\ \/ /\ stream' = w
          /\ open_streams' = open_streams \cup {w}
          /\ SetWorker(w, "loop")
          /\ UNCHANGED rec_faults
       \/ /\ rec_faults < MaxRecFaults
          /\ rec_faults' = rec_faults + 1
          /\ SetWorker(w, "failed")
          /\ UNCHANGED <<stream, open_streams>>
    /\ UNCHANGED <<recording, audio_queue, queues, recording_thread>>
    /\ UNCHANGED <<det_vars, ins_vars, tr_vars, orch_vars>>

\* `while self.recording:`
worker_loop(w) ==
    /\ workers[w].pc = "loop"
    /\ SetWorker(w, IF recording THEN "read" ELSE "stop")
    /\ UNCHANGED <<recording, audio_queue, queues, recording_thread, stream,
                   open_streams, rec_faults>>
    /\ UNCHANGED <<det_vars, ins_vars, tr_vars, orch_vars>>

\* data = self.stream.read(...): a frame, or an exception (self.stream is
\* None or closed, or the device fails), which `except` turns into `break`
worker_read(w) ==
    /\ workers[w].pc = "read"
    /\ IF stream = 0 \/ stream \notin open_streams
       THEN /\ workers' = [workers EXCEPT ![w].pc = "stop", ![w].err = TRUE]
            /\ UNCHANGED rec_faults
       ELSE \/ /\ workers[w].n < MaxFrames
               /\ workers' = [workers EXCEPT ![w].pc = "put", ![w].n = @ + 1,
                                ![w].data = Frame(w, workers[w].n + 1)]
               /\ UNCHANGED rec_faults
            \/ /\ rec_faults < MaxRecFaults
               /\ rec_faults' = rec_faults + 1
               /\ workers' = [workers EXCEPT ![w].pc = "stop", ![w].err = TRUE]
    /\ UNCHANGED <<recording, audio_queue, queues, recording_thread, stream,
                   open_streams>>
    /\ UNCHANGED <<det_vars, ins_vars, tr_vars, orch_vars>>

\* self.audio_queue.put(data)
worker_put(w) ==
    /\ workers[w].pc = "put"
    /\ queues' = [queues EXCEPT ![audio_queue] = Append(@, workers[w].data)]
    /\ SetWorker(w, "loop")
    /\ UNCHANGED <<recording, audio_queue, recording_thread, stream,
                   open_streams, rec_faults>>
    /\ UNCHANGED <<det_vars, ins_vars, tr_vars, orch_vars>>

\* after the loop: self.stream.stop_stream(); self.stream.close();
\* self.stream = None. A call on None raises and ends the thread.
worker_close(w) ==
    /\ workers[w].pc \in {"stop", "close", "clear"}
    /\ IF workers[w].pc = "stop"
       THEN /\ SetWorker(w, IF stream = 0 THEN "raised" ELSE "close")
            /\ UNCHANGED <<stream, open_streams>>
       ELSE IF workers[w].pc = "close"
       THEN /\ IF stream = 0
               THEN SetWorker(w, "raised")
               ELSE SetWorker(w, "clear")
            /\ open_streams' = open_streams \ {stream}
            /\ UNCHANGED stream
       ELSE /\ stream' = 0
            /\ SetWorker(w, "done")
            /\ UNCHANGED open_streams
    /\ UNCHANGED <<recording, audio_queue, queues, recording_thread, rec_faults>>
    /\ UNCHANGED <<det_vars, ins_vars, tr_vars, orch_vars>>

WorkerStep ==
    \/ \E w \in 1..Len(workers) : worker_open(w)
    \/ \E w \in 1..Len(workers) : worker_loop(w)
    \/ \E w \in 1..Len(workers) : worker_read(w)
    \/ \E w \in 1..Len(workers) : worker_put(w)
    \/ \E w \in 1..Len(workers) : worker_close(w)

\* b''.join(chunks), np.frombuffer(..., int16): the samples of the chunks,
\* one chunk after the other
RECURSIVE JoinChunks(_)
JoinChunks(chunks) ==
    IF chunks = <<>> THEN <<>>
    ELSE Head(chunks).pcm \o JoinChunks(Tail(chunks))

\* a conversion that divides by the largest int16
ToFloatBy32767(s) == (s * Pow2(15)) \div 32767
\* audio_array.astype(np.float32) / 32768.0 for one sample. A float32
\* value is held in units of 2^-15, in which every int16 / 32768.0 is exact.
ToFloat(s) == (s * Pow2(15)) \div 32768

\* the array stop_recording returns for the drained chunks
ToAudio(chunks) ==
    IF chunks # <<>>
    THEN LET samples == JoinChunks(chunks) IN
         Audio("float32", [j \in 1..Len(samples) |-> ToFloat(samples[j])])
    ELSE EmptyAudio

-----------------------------------------------------------------------------
(* Orchestrator                                                            *)

\* Number of hotkey callbacks (presses and releases) in one behaviour.
MaxCallbacks == 3

OrchInit ==
    /\ app_kind = "cli"
    /\ enabled = TRUE
    /\ is_recording = FALSE
    /\ recording_start_time = -1
    /\ total_transcriptions = 0
    /\ total_recording_time = 0
    /\ clock = 0
    /\ held = FALSE
    /\ cbs = <<>>
    /\ tasks = <<>>

OrchOff == OrchInit

\* KuiskausMenuBarApp.__init__: as KuiskausApp, with self.enabled = True
OrchMenuInit ==
    /\ app_kind = "menubar"
    /\ enabled = TRUE
    /\ is_recording = FALSE
    /\ recording_start_time = -1
    /\ total_transcriptions = 0
    /\ total_recording_time = 0
    /\ clock = 0
    /\ held = FALSE
    /\ cbs = <<>>
    /\ tasks = <<>>

\* toggle_enabled: self.enabled = not self.enabled, on the menu's thread
toggle_enabled ==
    /\ app_kind = "menubar"
    /\ enabled' = ~enabled
    /\ UNCHANGED <<is_recording, recording_start_time, total_transcriptions,
                   total_recording_time, clock, held, cbs, tasks, app_kind>>
    /\ UNCHANGED <<det_vars, ins_vars, tr_vars, rec_vars>>

\* text.strip(): blanks (0) removed at both ends
RECURSIVE LStrip(_)
LStrip(t) == IF t # <<>> /\ Head(t) = 0 THEN LStrip(Tail(t)) ELSE t
RECURSIVE RStrip(_)
RStrip(t) == IF t # <<>> /\ t[Len(t)] = 0 THEN RStrip(SubSeq(t, 1, Len(t) - 1)) ELSE t
Strip(t) == RStrip(LStrip(t))

\* a callback thread: its locals, whether the disabled state turned it
\* away (gated), whether its guard found nothing to do (skipped) and whether
\* its stop_recording ended an active session (stopped); the menu bar
\* app's handlers begin with the test of self.enabled
NewCallback(kind) ==
    [kind |-> kind,
     pc |-> IF app_kind = "menubar"
            THEN (IF kind = "press" THEN "p_en" ELSE "r_en")
            ELSE (IF kind = "press" THEN "p_chk" ELSE "r_chk"),
     duration |-> 0, chunks |-> <<>>, audio |-> EmptyAudio,
     gated |-> FALSE, skipped |-> FALSE, stopped |-> FALSE]

\* the listener starts a thread on on_press (combo newly held) or on
\* on_release (combo no longer held)
hotkey ==
    /\ held' = ~held
    /\ cbs' = Append(cbs, NewCallback(IF held THEN "release" ELSE "press"))
    /\ UNCHANGED <<is_recording, recording_start_time, total_transcriptions,
                   total_recording_time, clock, tasks, app_kind, enabled>>
    /\ UNCHANGED <<det_vars, ins_vars, tr_vars, rec_vars>>

SetCb(b, pc) == cbs' = [cbs EXCEPT ![b].pc = pc]

\* a handler that ignores the disabled state
DisabledNever(flag) == FALSE
\* `if not self.enabled:`
Disabled(flag) == ~flag

\* menubar.py on_hotkey_press / on_hotkey_release, first statement:
\*   if not self.enabled: return
enabled_gate(b) ==
    /\ cbs[b].pc \in {"p_en", "r_en"}
    /\ IF Disabled(enabled)
       THEN cbs' = [cbs EXCEPT ![b].pc = "done", ![b].gated = TRUE]
       ELSE SetCb(b, IF cbs[b].pc = "p_en" THEN "p_chk" ELSE "r_chk")
    /\ UNCHANGED <<is_recording, recording_start_time, total_transcriptions,
                   total_recording_time, clock, held, tasks, app_kind, enabled>>
    /\ UNCHANGED <<det_vars, ins_vars, tr_vars, rec_vars>>

\* a press handler without its guard
PressGuardNone(flag) == TRUE
\* `if not self.is_recording:`
PressGuard(flag) == ~flag

\* on_hotkey_press, up to the call of start_recording
on_hotkey_press(b) ==
    /\ cbs[b].pc \in {"p_chk", "p_set", "p_time"}
    /\ IF cbs[b].pc = "p_chk"
       THEN /\ IF PressGuard(is_recording)
               THEN SetCb(b, "p_set")
               ELSE cbs' = [cbs EXCEPT ![b].pc = "done", ![b].skipped = TRUE]
            /\ UNCHANGED <<is_recording, recording_start_time, clock>>
       ELSE IF cbs[b].pc = "p_set"
       THEN /\ is_recording' = TRUE
            /\ SetCb(b, "p_time")
            /\ UNCHANGED <<recording_start_time, clock>>
       ELSE /\ recording_start_time' = clock
            /\ clock' = clock + 1
            /\ SetCb(b, "s_chk")
            /\ UNCHANGED is_recording
    /\ UNCHANGED <<total_transcriptions, total_recording_time, held, app_kind,
                   enabled, tasks>>
    /\ UNCHANGED <<det_vars, ins_vars, tr_vars, rec_vars>>

\* err: the worker's loop was left through `except Exception: ... break`
NewWorker == [pc |-> "new", n |-> 0, data |-> Frame(0, 0), err |-> FALSE]

\* start_recording, one statement at a time:
\*   if not self.recording:
\*       self.recording = True
\*       self.audio_queue = queue.Queue()
\*       self.recording_thread = threading.Thread(...)
\*       self.recording_thread.start()    (raises if that thread was started)
start_recording(b) ==
    /\ cbs[b].pc \in {"s_chk", "s_set", "s_queue", "s_thread", "s_start"}
    /\ IF cbs[b].pc = "s_chk"
       THEN /\ SetCb(b, IF ~recording THEN "s_set" ELSE "done")
            /\ UNCHANGED <<recording, audio_queue, queues, recording_thread, workers>>
       ELSE IF cbs[b].pc = "s_set"
       THEN /\ recording' = TRUE
            /\ SetCb(b, "s_queue")
            /\ UNCHANGED <<audio_queue, queues, recording_thread, workers>>
       ELSE IF cbs[b].pc = "s_queue"
       THEN /\ queues' = Append(queues, <<>>)
            /\ audio_queue' = Len(queues) + 1
            /\ SetCb(b, "s_thread")
            /\ UNCHANGED <<recording, recording_thread, workers>>
       ELSE IF cbs[b].pc = "s_thread"
       THEN /\ workers' = Append(workers, NewWorker)
            /\ recording_thread' = Len(workers) + 1
            /\ SetCb(b, "s_start")
            /\ UNCHANGED <<recording, audio_queue, queues>>
       ELSE /\ IF workers[recording_thread].pc = "new"
               THEN /\ workers' = [workers EXCEPT ![recording_thread].pc = "open"]
                    /\ SetCb(b, "done")
               ELSE /\ UNCHANGED workers
                    /\ SetCb(b, "raised")
            /\ UNCHANGED <<recording, audio_queue, queues, recording_thread>>
    /\ UNCHANGED <<stream, open_streams, rec_faults>>
    /\ UNCHANGED <<is_recording, recording_start_time, total_transcriptions,
                   total_recording_time, clock, held, app_kind, enabled, tasks>>
    /\ UNCHANGED <<det_vars, ins_vars, tr_vars>>

\* on_hotkey_release, up to the call of stop_recording
on_hotkey_release(b) ==
    /\ cbs[b].pc \in {"r_chk", "r_clr", "r_dur"}
    /\ IF cbs[b].pc = "r_chk"
       THEN /\ IF is_recording
               THEN SetCb(b, "r_clr")
               ELSE cbs' = [cbs EXCEPT ![b].pc = "done", ![b].skipped = TRUE]
            /\ UNCHANGED <<is_recording, clock>>
       ELSE IF cbs[b].pc = "r_clr"
       THEN /\ is_recording' = FALSE
            /\ SetCb(b, "r_dur")
            /\ UNCHANGED clock
       ELSE /\ IF recording_start_time = -1
               THEN SetCb(b, "raised")
               ELSE cbs' = [cbs EXCEPT ![b].pc = "t_chk",
                                       ![b].duration = clock - recording_start_time]
            /\ clock' = clock + 1
            /\ UNCHANGED is_recording
    /\ UNCHANGED <<recording_start_time, total_transcriptions,
                   total_recording_time, held, app_kind, enabled, tasks>>
    /\ UNCHANGED <<det_vars, ins_vars, tr_vars, rec_vars>>

\* stop_recording, one statement at a time:
\*   if self.recording:
\*       self.recording = False
\*       if self.recording_thread: self.recording_thread.join(timeout=1.0)
\*       while not self.audio_queue.empty():
\*           audio_chunks.append(self.audio_queue.get())
\*       return the chunks as one float array
\*   return an empty array
stop_recording(b) ==
    /\ cbs[b].pc \in {"t_chk", "t_clr", "t_join", "t_empty", "t_get"}
    /\ IF cbs[b].pc = "t_chk"
       THEN /\ IF recording
               THEN SetCb(b, "t_clr")
               ELSE cbs' = [cbs EXCEPT ![b].pc = "r_len", ![b].audio = EmptyAudio]
            /\ UNCHANGED <<recording, queues>>
       ELSE IF cbs[b].pc = "t_clr"
       THEN /\ recording' = FALSE
            /\ cbs' = [cbs EXCEPT ![b].pc = "t_join", ![b].stopped = TRUE]
            /\ UNCHANGED queues
       ELSE IF cbs[b].pc = "t_join"
       THEN \* join returns when the thread has ended or after the timeout;
            \* joining a thread that was not started raises
            /\ IF recording_thread # 0 /\ workers[recording_thread].pc = "new"
               THEN SetCb(b, "raised")
               ELSE SetCb(b, "t_empty")
            /\ UNCHANGED <<recording, queues>>
       ELSE IF cbs[b].pc = "t_empty"
       THEN /\ IF queues[audio_queue] # <<>>
               THEN SetCb(b, "t_get")
               ELSE cbs' = [cbs EXCEPT ![b].pc = "r_len",
                                       ![b].audio = ToAudio(cbs[b].chunks)]
            /\ UNCHANGED <<recording, queues>>
       ELSE \* Queue.get() blocks while the queue is empty
            /\ queues[audio_queue] # <<>>
            /\ cbs' = [cbs EXCEPT ![b].pc = "t_empty",
                                  ![b].chunks = Append(@, Head(queues[audio_queue]))]
            /\ queues' = [queues EXCEPT ![audio_queue] = Tail(@)]
            /\ UNCHANGED recording
    /\ UNCHANGED <<audio_queue, recording_thread, stream, open_streams, workers,
                   rec_faults>>
    /\ UNCHANGED <<is_recording, recording_start_time, total_transcriptions,
                   total_recording_time, clock, held, app_kind, enabled, tasks>>
    /\ UNCHANGED <<det_vars, ins_vars, tr_vars>>

NewTask(audio, duration) ==
    [audio |-> audio, duration |-> duration, pc |-> "start", call |-> 0,
     text |-> <<>>, insert |-> 0, tmp |-> 0, error |-> FALSE]

\* a release handler that starts a task for any buffer
SpawnAlways(audio) == TRUE
\* `if len(audio_data) > 0:`
ShouldSpawn(audio) == Len(audio.data) > 0

\* a release handler that goes on only when the tasks so far have ended
Inline(ts) == \A t \in 1..Len(ts) : ts[t].pc = "done"
\* threading.Thread(target=self._transcribe_and_insert, ...).start()
\* returns at once, whatever the tasks started before are doing
Detached(ts) == TRUE

\* on_hotkey_release after stop_recording returned: a thread on
\* _transcribe_and_insert is started when the audio is not empty
spawn_finishing(b) ==
    /\ cbs[b].pc = "r_len"
    /\ Detached(tasks)
    /\ IF ShouldSpawn(cbs[b].audio)
       THEN tasks' = Append(tasks, NewTask(cbs[b].audio, cbs[b].duration))
       ELSE UNCHANGED tasks
    /\ SetCb(b, "done")
    /\ UNCHANGED <<is_recording, recording_start_time, total_transcriptions,
                   total_recording_time, clock, held, app_kind, enabled>>
    /\ UNCHANGED <<det_vars, ins_vars, tr_vars, rec_vars>>

SetTask(t, pc) == tasks' = [tasks EXCEPT ![t].pc = pc]

\* _transcribe_and_insert: result = self.transcriber.transcribe(audio_data)
task_transcribe(t) ==
    /\ tasks[t].pc = "start"
    /\ calls' = Append(calls, NewTranscribe(transcriber, tasks[t].audio))
    /\ tasks' = [tasks EXCEPT ![t].pc = "transcribing", ![t].call = Len(calls) + 1]
    /\ UNCHANGED <<USE_MLX, trs, transcriber, swaps, tr_faults>>
    /\ UNCHANGED <<is_recording, recording_start_time, total_transcriptions,
                   total_recording_time, clock, held, app_kind, enabled, cbs>>
    /\ UNCHANGED <<det_vars, ins_vars, rec_vars>>

\* a task that inserts whatever text it got
HasTextAlways(text) == TRUE
\* `if text:`
HasText(text) == text # <<>>

\* transcribe returned: text = result.get("text", "").strip(); an
\* exception ends the task in its `except` clause
task_result(t) ==
    /\ tasks[t].pc = "transcribing"
    /\ calls[tasks[t].call].pc \in {"returned", "raised"}
    /\ IF calls[tasks[t].call].pc = "raised"
       THEN tasks' = [tasks EXCEPT ![t].pc = "done", ![t].error = TRUE]
       ELSE LET text == Strip(calls[tasks[t].call].result.text) IN
            tasks' = [tasks EXCEPT ![t].text = text,
                        ![t].pc = IF HasText(text) THEN "count" ELSE "done"]
    /\ UNCHANGED <<is_recording, recording_start_time, total_transcriptions,
                   total_recording_time, clock, held, app_kind, enabled, cbs>>
    /\ UNCHANGED <<det_vars, ins_vars, tr_vars, rec_vars>>

\* self.total_transcriptions += 1; self.total_recording_time += duration:
\* each a read followed by a write
task_stats(t) ==
    /\ tasks[t].pc \in {"count", "count_w", "time", "time_w"}
    /\ IF tasks[t].pc = "count"
       THEN /\ tasks' = [tasks EXCEPT ![t].pc = "count_w", ![t].tmp = total_transcriptions]
            /\ UNCHANGED <<total_transcriptions, total_recording_time>>
       ELSE IF tasks[t].pc = "count_w"
       THEN /\ total_transcriptions' = tasks[t].tmp + 1
            /\ SetTask(t, "time")
            /\ UNCHANGED total_recording_time
       ELSE IF tasks[t].pc = "time"
       THEN /\ tasks' = [tasks EXCEPT ![t].pc = "time_w", ![t].tmp = total_recording_time]
            /\ UNCHANGED <<total_transcriptions, total_recording_time>>
       ELSE /\ total_recording_time' = tasks[t].tmp + tasks[t].duration
            /\ SetTask(t, "insert")
            /\ UNCHANGED total_transcriptions
    /\ UNCHANGED <<is_recording, recording_start_time, clock, held, app_kind,
                   enabled, cbs>>
    /\ UNCHANGED <<det_vars, ins_vars, tr_vars, rec_vars>>

\* self.text_inserter.insert_text(text)
task_insert(t) ==
    /\ tasks[t].pc = "insert"
    /\ ins' = Append(ins, InsertText(tasks[t].text, TRUE))
    /\ tasks' = [tasks EXCEPT ![t].pc = "inserting", ![t].insert = Len(ins) + 1]
    /\ UNCHANGED <<insert_lock, clipboard, clipboard0, posted, faults>>
    /\ UNCHANGED <<is_recording, recording_start_time, total_transcriptions,
                   total_recording_time, clock, held, app_kind, enabled, cbs>>
    /\ UNCHANGED <<det_vars, tr_vars, rec_vars>>

\* insert_text returned, or raised into the task's `except` clause
task_inserted(t) ==
    /\ tasks[t].pc = "inserting"
    /\ ins[tasks[t].insert].pc \in {"done", "raised"}
    /\ tasks' = [tasks EXCEPT ![t].pc = "done",
                              ![t].error = (ins[tasks[t].insert].pc = "raised")]
    /\ UNCHANGED <<is_recording, recording_start_time, total_transcriptions,
                   total_recording_time, clock, held, app_kind, enabled, cbs>>
    /\ UNCHANGED <<det_vars, ins_vars, tr_vars, rec_vars>>

CallbackStep ==
    \/ \E b \in 1..Len(cbs) : on_hotkey_press(b)
    \/ \E b \in 1..Len(cbs) : start_recording(b)
    \/ \E b \in 1..Len(cbs) : on_hotkey_release(b)
    \/ \E b \in 1..Len(cbs) : stop_recording(b)
    \/ \E b \in 1..Len(cbs) : spawn_finishing(b)

TaskStep ==
    \/ \E t \in 1..Len(tasks) : task_transcribe(t)
    \/ \E t \in 1..Len(tasks) : task_result(t)
    \/ \E t \in 1..Len(tasks) : task_stats(t)
    \/ \E t \in 1..Len(tasks) : task_insert(t)
    \/ \E t \in 1..Len(tasks) : task_inserted(t)

-----------------------------------------------------------------------------
(* Specifications                                                         *)

\* the detector alone
SpecDetInit == DetInit /\ InsOff /\ TrOff /\ RecOff /\ OrchOff
SpecDetNext == DetNext
SpecDet == SpecDetInit /\ [][SpecDetNext]_vars

\* the inserter alone, called directly
SpecInsInit == DetOff /\ InsInit /\ TrOff /\ RecOff /\ OrchOff
SpecInsNext == InsNext
SpecIns == SpecInsInit /\ [][SpecInsNext]_vars

\* insert_text as a function of its arguments: calls made one after another
MaxSelCalls == 1
SpecSelInit == DetOff /\ InsInit /\ TrOff /\ RecOff /\ OrchOff
SpecSelNext ==
    \/ Len(ins) < MaxSelCalls /\ InsAnyCall
    \/ InsStep
SpecSel == SpecSelInit /\ [][SpecSelNext]_vars

\* the transcriber alone: direct transcribe() calls and model swaps
SpecTrInit == DetOff /\ InsOff /\ TrInit /\ RecOff /\ OrchOff
SpecTrNext ==
    \/ Len(calls) < MaxTranscribe /\ \E audio \in SmallInputs : call_transcribe(audio)
    \/ Len(swaps) < MaxSwaps /\ \E m \in ModelNames : change_model(m)
    \/ LoadStep
    \/ TranscribeStep
    \/ SwapStep
SpecTr == SpecTrInit /\ [][SpecTrNext]_vars

\* transcribe() as a function of its audio argument: direct calls with
\* arrays of every length around min_length
MaxPadCalls == 1
SpecPadInit == DetOff /\ InsOff /\ TrInit /\ RecOff /\ OrchOff
SpecPadNext ==
    \/ Len(calls) < MaxPadCalls /\ \E audio \in AudioInputs : call_transcribe(audio)
    \/ LoadStep
    \/ TranscribeStep
SpecPad == SpecPadInit /\ [][SpecPadNext]_vars

\* capture: the hotkey callbacks, the recorder and its worker threads
SpecRecInit == DetOff /\ InsOff /\ TrOff /\ RecInit /\ OrchInit
SpecRecNext ==
    \/ Len(cbs) < MaxCallbacks /\ hotkey
    \/ CallbackStep
    \/ WorkerStep
SpecRec == SpecRecInit /\ [][SpecRecNext]_vars

\* as SpecRec, with the callbacks run one at a time: the listener's next
\* callback thread starts only when the previous one has ended
CallbacksEnded == \A b \in 1..Len(cbs) : cbs[b].pc \in {"done", "raised"}
SpecRecSeqNext ==
    \/ Len(cbs) < MaxCallbacks /\ CallbacksEnded /\ hotkey
    \/ CallbackStep
    \/ WorkerStep
SpecRecSeq == SpecRecInit /\ [][SpecRecSeqNext]_vars

\* capture to inference: as SpecRec, with each Finishing task followed
\* through its transcribe() call
SpecCapInit == DetOff /\ InsOff /\ TrInit /\ RecInit /\ OrchInit
SpecCapNext ==
    \/ Len(cbs) < MaxCallbacks /\ hotkey
    \/ CallbackStep
    \/ WorkerStep
    \/ \E t \in 1..Len(tasks) : task_transcribe(t)
    \/ LoadStep
    \/ TranscribeStep
SpecCap == SpecCapInit /\ [][SpecCapNext]_vars

\* one whole cycle: callbacks run one at a time, the Finishing task
\* followed through transcribe and insert
MaxFinCallbacks == 2
SpecFinInit == DetOff /\ InsInit /\ TrInit /\ RecInit /\ OrchInit
SpecFinNext ==
    \/ Len(cbs) < MaxFinCallbacks /\ CallbacksEnded /\ hotkey
    \/ CallbackStep
    \/ WorkerStep
    \/ TaskStep
    \/ LoadStep
    \/ TranscribeStep
    \/ InsStep
SpecFin == SpecFinInit /\ [][SpecFinNext]_vars

\* cycles one after another: the next press or release comes when the
\* callbacks and the Finishing tasks so far have ended, and the next
\* press when the worker of the session before has ended too
MaxCycCallbacks == 4
TasksEnded == \A t \in 1..Len(tasks) : tasks[t].pc = "done"
Quiet == CallbacksEnded /\ TasksEnded /\ (~held => Running = {})
SpecCycNext ==
    \/ Len(cbs) < MaxCycCallbacks /\ Quiet /\ hotkey
    \/ CallbackStep
    \/ WorkerStep
    \/ TaskStep
    \/ LoadStep
    \/ TranscribeStep
    \/ InsStep
SpecCyc == SpecFinInit /\ [][SpecCycNext]_vars

\* the menu bar app's capture: as SpecRecSeq, with the Enabled menu item
\* clicked at any time
SpecMenuInit == DetOff /\ InsOff /\ TrOff /\ RecInit /\ OrchMenuInit
SpecMenuNext ==
    \/ Len(cbs) < MaxCallbacks /\ CallbacksEnded /\ hotkey
    \/ toggle_enabled
    \/ \E b \in 1..Len(cbs) : enabled_gate(b)
    \/ CallbackStep
    \/ WorkerStep
SpecMenu == SpecMenuInit /\ [][SpecMenuNext]_vars

\* overlapping cycles: the next cycle starts while the Finishing tasks of
\* the cycles before are under way. The callbacks run one at a time; the
\* task threads move between callbacks, while the combo is held or once
\* the capture worker has nothing left to do; the device, the engine and
\* the event posts do not fail (their budgets of failures start used up).
MaxOvCallbacks == 4
Turn(threads) ==
    IF CallbacksEnded /\ (held \/ ~ENABLED WorkerStep) THEN 1..Len(threads) ELSE {}
SpecOvInit ==
    /\ DetOff /\ OrchInit
    /\ insert_lock = 0 /\ clipboard0 = None /\ clipboard = clipboard0
    /\ posted = <<>> /\ ins = <<>> /\ faults = MaxFaults
    /\ USE_MLX = TRUE /\ trs = <<NewTranscriber("turbo")>> /\ transcriber = 1
    /\ calls = <<>> /\ swaps = <<>> /\ tr_faults = MaxTrFaults
    /\ recording = FALSE /\ audio_queue = 1 /\ queues = << <<>> >>
    /\ recording_thread = 0 /\ stream = 0 /\ open_streams = {}
    /\ workers = <<>> /\ rec_faults = MaxRecFaults
OvThreadStep ==
    \/ \E t \in Turn(tasks) : task_transcribe(t)
    \/ \E t \in Turn(tasks) : task_result(t)
    \/ \E t \in Turn(tasks) : task_stats(t)
    \/ \E t \in Turn(tasks) : task_insert(t)
    \/ \E t \in Turn(tasks) : task_inserted(t)
    \/ \E k \in Turn(trs) : load_acquire(k)
    \/ \E k \in Turn(trs) : load_model(k)
    \/ \E c \in Turn(calls) : ensure_model_loaded(c)
    \/ \E c \in Turn(calls) : prepare(c)
    \/ \E c \in Turn(calls) : acquire_model_lock(c)
    \/ \E c \in Turn(calls) : invoke_engine(c)
    \/ \E c \in Turn(calls) : engine_return(c)
    \/ \E c \in Turn(calls) : release_model_lock(c)
    \/ \E c \in Turn(ins) : acquire_insert_lock(c)
    \/ \E c \in Turn(ins) : type_character(c)
    \/ \E c \in Turn(ins) : paste_save(c)
    \/ \E c \in Turn(ins) : paste_clear(c)
    \/ \E c \in Turn(ins) : paste_set(c)
    \/ \E c \in Turn(ins) : simulate_paste(c)
    \/ \E c \in Turn(ins) : paste_restore(c)
    \/ \E c \in Turn(ins) : release_insert_lock(c)
SpecOvNext ==
    \/ Len(cbs) < MaxOvCallbacks /\ CallbacksEnded /\ (~held => Running = {}) /\ hotkey
    \/ CallbackStep
    \/ WorkerStep
    \/ OvThreadStep
SpecOv == SpecOvInit /\ [][SpecOvNext]_vars

\* rapid cycles with fair scheduling: as SpecOv, with the engine allowed to
\* fail, and a second cycle only before the first task has begun.  Every
\* thread that can take a step eventually takes one (the OS scheduler),
\* an engine call under way returns or raises, and a caller waiting for a
\* lock that becomes free again and again eventually gets it.
SpecLiveInit ==
    /\ DetOff /\ OrchInit
    /\ insert_lock = 0 /\ clipboard0 = None /\ clipboard = clipboard0
    /\ posted = <<>> /\ ins = <<>> /\ faults = MaxFaults
    /\ USE_MLX = TRUE /\ trs = <<NewTranscriber("turbo")>> /\ transcriber = 1
    /\ calls = <<>> /\ swaps = <<>> /\ tr_faults = 0
    /\ recording = FALSE /\ audio_queue = 1 /\ queues = << <<>> >>
    /\ recording_thread = 0 /\ stream = 0 /\ open_streams = {}
    /\ workers = <<>> /\ rec_faults = MaxRecFaults
NoTaskBegun == \A t \in 1..Len(tasks) : tasks[t].pc = "start"
SpecLiveNext ==
    \/ /\ Len(cbs) < MaxOvCallbacks /\ CallbacksEnded /\ (~held => Running = {})
       /\ NoTaskBegun /\ hotkey
    \/ CallbackStep
    \/ WorkerStep
    \/ OvThreadStep
Threads == 1..(MaxOvCallbacks \div 2)
Fairness ==
    /\ WF_vars(CallbackStep)
    /\ WF_vars(WorkerStep)
    /\ WF_vars(OvThreadStep)
    /\ \A c \in Threads : SF_vars(c <= Len(calls) /\ acquire_model_lock(c))
    /\ \A c \in Threads : SF_vars(c <= Len(ins) /\ acquire_insert_lock(c))
SpecLive == SpecLiveInit /\ [][SpecLiveNext]_vars /\ Fairness

\* stop_recording as a function of what was captured: a session in which
\* the worker has queued between no frame and MaxQueued frames, ended by
\* one release
MaxQueued == 3
SpecStopInit ==
    /\ DetOff /\ InsOff /\ TrOff
    /\ app_kind = "cli" /\ enabled = TRUE
    /\ is_recording = TRUE /\ recording_start_time = 0 /\ clock = 1
    /\ total_transcriptions = 0 /\ total_recording_time = 0
    /\ held = TRUE /\ tasks = <<>>
    /\ cbs = <<[NewCallback("press") EXCEPT !.pc = "done"]>>
    /\ recording = TRUE /\ recording_thread = 1
    /\ stream = 1 /\ open_streams = {1} /\ rec_faults = 0
    /\ audio_queue = 2
    /\ \E n \in 0..MaxQueued :
          /\ queues = << <<>>, [i \in 1..n |-> Frame(1, i)] >>
          /\ workers = <<[NewWorker EXCEPT !.pc = "loop", !.n = n,
                                            !.data = Frame(1, n)]>>
SpecStopNext ==
    \/ Len(cbs) < 2 /\ hotkey
    \/ \E b \in 1..Len(cbs) : on_hotkey_release(b)
    \/ \E b \in 1..Len(cbs) : stop_recording(b)
    \/ \E b \in 1..Len(cbs) : spawn_finishing(b)
    \/ \E w \in 1..Len(workers) : worker_loop(w)
    \/ \E w \in 1..Len(workers) : worker_read(w)
    \/ \E w \in 1..Len(workers) : worker_put(w)
    \/ \E w \in 1..Len(workers) : worker_close(w)
SpecStop == SpecStopInit /\ [][SpecStopNext]_vars

\* rapid taps on a session under way: as SpecStop, followed by a press
\* and a second release. The release threads run in any order; a press
\* thread has ended when the next notification comes.
MaxTapCallbacks == 4
SpecTapNext ==
    \/ /\ Len(cbs) < MaxTapCallbacks
       /\ \A b \in 1..Len(cbs) :
             cbs[b].kind = "press" => cbs[b].pc \in {"done", "raised"}
       /\ hotkey
    \/ CallbackStep
    \/ WorkerStep
SpecTap == SpecStopInit /\ [][SpecTapNext]_vars

-----------------------------------------------------------------------------
(* Claims                                                                  *)

\* C1: at most one capture session is active at any instant: no more than
\* one _recording_worker loop is running and no more than one input
\* stream is open, for any interleaving of the press and release callbacks.
C1_AtMostOneCapture ==
    /\ Cardinality(InLoop) <= 1
    /\ Cardinality(open_streams) <= 1

\* C2: at most one inference (engine transcribe invocation) runs
\* process-wide at any instant, for every interleaving of transcribe calls
\* and model swaps.
InEngine == {c \in 1..Len(calls) : calls[c].pc = "engine"}
C2_OneInference == Cardinality(InEngine) <= 1

\* C3: two concurrent insert calls never interleave (the events one call
\* posts are not separated by the other's, and only the lock holder is
\* inside either strategy), and the clipboard after both calls complete
\* equals its content before the first call.
InsideInsert == {c \in 1..Len(ins) :
                   ins[c].pc \notin {"lock_typing", "lock_paste", "done", "raised"}}
NoInterleave ==
    /\ \A i, j, k \in 1..Len(posted) :
          i < j /\ j < k /\ posted[i].by = posted[k].by => posted[j].by = posted[i].by
    /\ InsideInsert \subseteq {insert_lock}
InsertsEnded == \A c \in 1..Len(ins) : ins[c].pc \in {"done", "raised"}
C3_InsertsSerialized ==
    /\ NoInterleave
    /\ (Len(ins) = 2 /\ InsertsEnded) => clipboard = clipboard0

\* C4: a paste-injection leaves the clipboard as it found it on every exit
\* path: when insert_text_paste is about to return or raise, the clipboard
\* equals the clipboard before the call, whether that was a string or no
\* string content.
C4_PasteRestoresClipboard ==
    \A c \in 1..Len(ins) :
        ins[c].paste /\ ins[c].pc = "unlock" => clipboard = ins[c].entry

\* C5: a model swap does not release the model of a transcriber while a
\* transcribe call that obtained that transcriber is between entry and
\* return.
InFlight(k) == {c \in 1..Len(calls) :
                  calls[c].tr = k /\ calls[c].pc \notin {"returned", "raised"}}
C5_SwapKeepsModelInFlight ==
    [][\A k \in 1..Len(trs) :
          trs[k].model # 0 /\ trs'[k].model = 0 => InFlight(k) = {}]_vars

\* C6: combo detection is edge-triggered: on every notification, a
\* false->true change of the combo predicate starts exactly one on_press,
\* a true->false change exactly one on_release, and no change starts
\* nothing.
C6_EdgeTriggered ==
    [][notified' = notified + 1 =>
         LET was == check_modifiers(last_flags)
             now == check_modifiers(last_flags')
         IN  /\ press_fired' - press_fired = IF ~was /\ now THEN 1 ELSE 0
             /\ release_fired' - release_fired = IF was /\ ~now THEN 1 ELSE 0]_vars

\* C7: the combo predicate is true exactly when control (bit 18) and
\* option (bit 19) are set and command (bit 20) is not, for every bitmask;
\* and a notification that arrives while unpressed fires on_press once
\* when its flags satisfy that, and fires no press otherwise.
ComboOf(flags) ==
    /\ (flags \div 262144) % 2 = 1
    /\ (flags \div 524288) % 2 = 1
    /\ (flags \div 1048576) % 2 = 0
C7_ComboPredicate ==
    [][/\ \A flags \in FlagSet : check_modifiers(flags) <=> ComboOf(flags)
       /\ notified' = notified + 1 /\ ~is_pressed =>
            press_fired' - press_fired = IF ComboOf(last_flags') THEN 1 ELSE 0]_vars

\* C8: a press handled while the orchestrator is already Recording is a
\* no-op: the callback ends at its test, and is_recording,
\* recording_start_time, the recorder's recording flag, its queue and its
\* frames, and its worker threads are unchanged.
C8_PressWhileRecordingNoOp ==
    [][\A b \in 1..Len(cbs) :
          cbs[b].kind = "press" /\ cbs[b].pc = "p_chk" /\ cbs'[b].pc # "p_chk"
          /\ is_recording
          => /\ cbs'[b].pc = "done"
             /\ UNCHANGED <<is_recording, recording_start_time, recording,
                            audio_queue, queues, recording_thread, workers>>]_vars
\* a press ended as a no-op while a session was capturing with a frame queued
C8_Witness ==
    \E b \in 1..Len(cbs) :
        /\ cbs[b].kind = "press" /\ cbs[b].skipped
        /\ is_recording /\ recording
        /\ queues[audio_queue] # <<>>
        /\ InLoop # {}

\* C9: stop_recording on a session with zero captured frames returns an
\* empty buffer (and a non-empty one otherwise); a release with an empty
\* buffer starts no Finishing task; and neither transcribe nor the engine
\* ever gets zero-length audio.
Returned(b) == cbs[b].kind = "release" /\ cbs[b].pc \in {"r_len", "done"} /\ ~cbs[b].skipped
C9_EmptyNeverTranscribed ==
    /\ \A b \in 1..Len(cbs) :
          Returned(b) => Len(cbs[b].audio.data) = chunk_size * Len(cbs[b].chunks)
    /\ Len(tasks) = Cardinality({b \in 1..Len(cbs) :
                       Returned(b) /\ cbs[b].pc = "done" /\ cbs[b].chunks # <<>>})
    /\ \A t \in 1..Len(tasks) : Len(tasks[t].audio.data) > 0
    /\ \A c \in 1..Len(calls) :
          /\ Len(calls[c].input.data) > 0
          /\ calls[c].pc \in {"invoke", "engine"} => Len(calls[c].audio.data) > 0
\* a release stopped an active session that had captured nothing, got an
\* empty buffer and ended without starting a task
C9_Witness ==
    \E b \in 1..Len(cbs) :
        /\ cbs[b].kind = "release" /\ cbs[b].pc = "done" /\ cbs[b].stopped
        /\ cbs[b].audio = EmptyAudio
        /\ tasks = <<>>

\* C10: for every non-empty input of n < 1600 samples the engine receives
\* exactly 1600 samples, the first n equal to the input and the rest zero;
\* an input of n >= 1600 samples is sent unchanged.
C10_ShortAudioPadded ==
    \A c \in 1..Len(calls) :
        calls[c].pc = "engine" =>
            LET given == calls[c].input.data
                sent == calls[c].audio.data
                n == Len(given)
            IN  /\ n > 0
                /\ IF n < 1600
                   THEN /\ Len(sent) = 1600
                        /\ \A k \in 1..n : sent[k] = given[k]
                        /\ \A k \in (n + 1)..1600 : sent[k] = 0
                   ELSE sent = given
\* the engine is running on an input of 1599 samples
C10_Witness ==
    \E c \in 1..Len(calls) :
        calls[c].pc = "engine" /\ Len(calls[c].input.data) = 1599

\* C12: every release received while the orchestrator is Recording stops
\* capture and returns it to Idle, whatever the enabled flag: once a
\* release callback has ended and the combo is up, the orchestrator is not
\* Recording and the recorder is not capturing.
C12_ReleaseEndsCapture ==
    (Len(cbs) > 0 /\ CallbacksEnded /\ ~held) => (~is_recording /\ ~recording)

\* C13: a press handled while the pipeline is disabled is ignored
\* entirely: the callback ends at the test of enabled, the orchestrator's
\* is_recording and start timestamp are unchanged, and the recorder (flag,
\* queue, worker threads, streams) is untouched.
C13_DisabledPressIgnored ==
    [][\A b \in 1..Len(cbs) :
          cbs[b].kind = "press" /\ cbs[b].pc = "p_en" /\ cbs'[b].pc # "p_en"
          /\ ~enabled
          => /\ cbs'[b].pc = "done"
             /\ UNCHANGED <<is_recording, recording_start_time, rec_vars>>]_vars
\* a press was turned away while disabled and Idle, with no device opened
C13_Witness ==
    \E b \in 1..Len(cbs) :
        /\ cbs[b].kind = "press" /\ cbs[b].gated
        /\ ~enabled /\ ~is_recording /\ recording_start_time = -1
        /\ workers = <<>> /\ open_streams = {}

\* C14: the inference engine is never invoked on a transcriber whose load
\* has not completed: whenever a transcribe call is inside the engine, the
\* load of its transcriber is done.
C14_EngineOnLoadedModel ==
    \A c \in 1..Len(calls) :
        calls[c].pc = "engine" => trs[calls[c].tr].load = "done"

\* C15: a model swap installs the new transcriber as current only once it
\* is loaded (the current transcriber is never one a swap constructed and
\* whose load is still running), and the old transcriber is cleaned up
\* only by a swap that has already installed its replacement.
CleanupAfterInstall ==
    \A s \in 1..Len(swaps) :
        swaps[s].pc \in {"read", "construct", "assign"} /\ swaps[s].old # 0
        => \/ ~trs[swaps[s].old].cleaned
           \/ \E r \in 1..Len(swaps) :
                 r # s /\ swaps[r].old = swaps[s].old /\ swaps[r].pc = "done"
C15_InstallOnceLoaded ==
    /\ transcriber # 1 => ~is_alive(transcriber)
    /\ CleanupAfterInstall

\* C17: a model load failure is surfaced through ensure_model_loaded: a
\* transcribe call on a transcriber whose load raised never gets past
\* ensure_model_loaded normally and never returns a result.
C17_LoadFailureSurfaced ==
    \A c \in 1..Len(calls) :
        trs[calls[c].tr].load = "failed"
        => calls[c].pc \in {"ensure", "raised"}

\* C18: for every non-empty text, insert_text runs the paste strategy
\* exactly when paste is allowed and the text is longer than 10 characters,
\* and the typing strategy otherwise; one strategy runs per call: a pasting
\* call posts only the paste keys, a typing call only character keys.
PasteKeys == {"cmd_down", "v_down", "v_up", "cmd_up"}
PastePcs == {"lock_paste", "save", "clear", "set", "paste_key", "restore", "restore_set"}
TypingPcs == {"lock_typing", "key_down", "key_up"}
C19_EmptyInsertNoOp ==
    [][\A c \in 1..Len(ins') :
          ins'[c].op = "insert_text" /\ ins'[c].text = <<>>
          => /\ ins'[c].pc = "done"
             /\ insert_lock' # c
             /\ \A e \in 1..Len(posted') : posted'[e].by # c
             /\ c <= Len(ins) => ins'[c] = ins[c]
             /\ c > Len(ins) => UNCHANGED <<insert_lock, clipboard, posted>>]_vars
\* insert_text("") returned with the lock free, nothing posted and the
\* clipboard holding the string it held before
C19_Witness ==
    \E c \in 1..Len(ins) :
        /\ ins[c].op = "insert_text" /\ ins[c].text = <<>> /\ ins[c].pc = "done"
        /\ insert_lock = 0 /\ posted = <<>>
        /\ clipboard = Str(OldText)

\* C11: within one Finishing task stop-capture precedes transcribe, which
\* precedes insert: a task exists only for a release whose stop_recording
\* ended a session and returned the task's (non-empty) buffer; transcribe
\* is called on that buffer; and insert_text is called only after that
\* transcribe call has returned, with its text stripped of the blanks at
\* both ends, which is not empty.
IsStripOf(text, raw) ==
    /\ text # <<>> /\ Head(text) # 0 /\ text[Len(text)] # 0
    /\ \E i \in 1..Len(raw) :
          /\ i + Len(text) - 1 <= Len(raw)
          /\ SubSeq(raw, i, i + Len(text) - 1) = text
          /\ \A k \in 1..Len(raw) : (k < i \/ k > i + Len(text) - 1) => raw[k] = 0
C11_StopTranscribeInsert ==
    /\ \A t \in 1..Len(tasks) :
          /\ Len(tasks[t].audio.data) > 0
          /\ \E b \in 1..Len(cbs) :
                /\ cbs[b].kind = "release" /\ cbs[b].pc = "done" /\ cbs[b].stopped
                /\ cbs[b].audio = tasks[t].audio
          /\ tasks[t].call # 0 => calls[tasks[t].call].input = tasks[t].audio
          /\ tasks[t].insert # 0 =>
                /\ tasks[t].call # 0
                /\ calls[tasks[t].call].pc = "returned"
                /\ ins[tasks[t].insert].op = "insert_text"
                /\ IsStripOf(ins[tasks[t].insert].text, calls[tasks[t].call].result.text)
    /\ Len(calls) = Cardinality({t \in 1..Len(tasks) : tasks[t].call # 0})
    /\ Len(ins) = Cardinality({t \in 1..Len(tasks) : tasks[t].insert # 0})
\* a task ran to its end: its buffer was transcribed and the text inserted
C11_Witness ==
    \E t \in 1..Len(tasks) :
        /\ tasks[t].pc = "done" /\ ~tasks[t].error
        /\ tasks[t].insert # 0 /\ ins[tasks[t].insert].pc = "done"

\* C16: a transcribe failure leaves the adapter usable and stays in the
\* Finishing task: a call that raised does not hold the model lock, the
\* lock is only ever held by a call inside its `with` block or by the
\* loader, and a task whose transcribe call raised ends in its except
\* clause without inserting.
ModelLockHolderLive ==
    \A k \in 1..Len(trs) :
        trs[k].lock > 0 =>
            /\ calls[trs[k].lock].tr = k
            /\ calls[trs[k].lock].pc \in {"invoke", "engine", "unlock"}
C16_TranscribeFailureContained ==
    /\ ModelLockHolderLive
    /\ \A c \in 1..Len(calls) :
          calls[c].pc = "raised" => trs[calls[c].tr].lock # c
    /\ \A t \in 1..Len(tasks) :
          tasks[t].call # 0 /\ calls[tasks[t].call].pc = "raised"
          => /\ tasks[t].pc \in {"transcribing", "done"}
             /\ tasks[t].pc = "done" => tasks[t].error
             /\ tasks[t].insert = 0
\* the engine raised in one call, and a later call on the same transcriber
\* took the lock, ran the engine and returned its result
C16_Witness ==
    \E c1, c2 \in 1..Len(calls) :
        /\ c1 < c2 /\ calls[c1].tr = calls[c2].tr
        /\ USE_MLX /\ calls[c1].pc = "raised"
        /\ calls[c2].pc = "returned" /\ calls[c2].result.text # <<>>

\* C20: no failure of a Finishing task stops the orchestrator: a task that
\* ended in error holds neither the model lock nor the injection lock, the
\* injection lock is only ever held by a call inside its `with` block, and
\* whenever the callbacks and tasks have ended with the combo up the
\* orchestrator is Idle, so that the next press starts a recording.
InsertLockHolderLive ==
    insert_lock # 0 => ins[insert_lock].pc \notin {"lock_typing", "lock_paste", "done", "raised"}
C20_CycleFailureContained ==
    /\ InsertLockHolderLive
    /\ \A t \in 1..Len(tasks) :
          tasks[t].pc = "done" /\ tasks[t].error
          => /\ tasks[t].call # 0
             /\ trs[calls[tasks[t].call].tr].lock # tasks[t].call
             /\ tasks[t].insert # 0 => insert_lock # tasks[t].insert
    /\ (Quiet /\ ~held) => (~is_recording /\ ~recording)
\* after a task failed in injection, a later cycle was recorded,
\* transcribed and inserted
C20_Witness ==
    \E t1, t2 \in 1..Len(tasks) :
        /\ t1 < t2
        /\ tasks[t1].pc = "done" /\ tasks[t1].error
        /\ tasks[t1].insert # 0 /\ ins[tasks[t1].insert].pc = "raised"
        /\ tasks[t2].pc = "done" /\ ~tasks[t2].error
        /\ tasks[t2].insert # 0 /\ ins[tasks[t2].insert].pc = "done"

\* C21: start() fails when the process is not trusted or when no
\* observation handle can be created: a start() that runs in either case
\* returns False and leaves no handle installed, and while no handle is
\* installed no on_press and no on_release callback is started.
C21_StartFailureReported ==
    [][/\ ~running /\ running' /\ (~trusted \/ handles' = {})
            => start_result' = "False" /\ handles' = {}
       /\ handles = {} => UNCHANGED <<press_fired, release_fired>>]_vars
C21_Witness ==
    /\ start_result = "False"
    /\ running
    /\ handles = {}
    /\ press_fired = 0 /\ release_fired = 0

\* C27: once stop() has returned, running is false, is_pressed is false
\* and no handle created by start() is still installed; and until start()
\* is called again no on_press and no on_release callback is started.
C27_StopTearsDown ==
    /\ [](~running => handles = {} /\ ~is_pressed)
    /\ [][~running /\ ~running' => UNCHANGED <<press_fired, release_fired>>]_vars
C27_Witness ==
    /\ ~running
    /\ start_result = "True"
    /\ press_fired > release_fired
    /\ handles = {} /\ ~is_pressed

\* C22: a failure to open the input device when capture starts is not
\* lost: the press callback does not end normally leaving the recorder
\* marked as recording while the worker that failed to open the device is
\* its thread and no capture loop is running.
C22_OpenFailureSurfaced ==
    \A w \in 1..Len(workers) :
        workers[w].pc = "failed" /\ recording_thread = w /\ CallbacksEnded
        => ~(recording /\ Running = {})

\* C25: a worker reads only from the stream it opened and closes only the
\* stream it opened, and when a worker that opened a stream has ended,
\* that stream is closed.
C25_OwnStreamOnly ==
    [][\A w \in 1..Len(workers) :
          /\ workers[w].pc = "read" /\ workers'[w].pc = "put" => stream = w
          /\ workers[w].pc = "close" /\ workers'[w].pc # "close" => stream = w
          /\ workers[w].pc # workers'[w].pc /\ workers'[w].pc \in {"done", "raised"}
             => w \notin open_streams']_vars

\* C26: a read error in the capture loop ends the loop and closes the
\* device without a fault reaching anyone: the worker leaves the loop and
\* ends normally with the stream it opened closed, no callback raises, and
\* no frame the worker queued before the error is lost: each is still in
\* the recorder's queue or in the buffer of a stop_recording.
Chunks(q) == {q[i] : i \in 1..Len(q)}
C26_ReadErrorContained ==
    \A w \in 1..Len(workers) :
        workers[w].err =>
            /\ workers[w].pc \in {"stop", "close", "clear", "done"}
            /\ workers[w].pc = "done" => w \notin open_streams
            /\ \A b \in 1..Len(cbs) : cbs[b].pc # "raised"
            /\ \A i \in 1..workers[w].n :
                  \/ Frame(w, i) \in Chunks(queues[audio_queue])
                  \/ \E b \in 1..Len(cbs) : Frame(w, i) \in Chunks(cbs[b].chunks)

\* C23: the hotkey path never takes or waits for the inference lock or the
\* injection lock: a step of an on_hotkey_press or on_hotkey_release
\* callback leaves both locks as they are, and a callback that has not
\* ended can always take its next step, whoever holds the locks; so cycles
\* go on while Finishing tasks are inside transcribe or insert_text.
LocksOf(ts) == [k \in 1..Len(ts) |-> ts[k].lock]
C23_HotkeyPathNeverBlocks ==
    /\ [](~CallbacksEnded => ENABLED CallbackStep)
    /\ [][(\E b \in 1..Len(cbs) : cbs'[b] # cbs[b])
            => insert_lock' = insert_lock /\ LocksOf(trs') = LocksOf(trs)]_vars
\* both cycles are over and both their tasks are in flight: one inside the
\* engine holding the model lock, the other waiting for that lock
C23_Witness ==
    /\ Len(cbs) = 4 /\ CallbacksEnded /\ Len(tasks) = 2
    /\ \E t, u \in 1..Len(tasks) :
          /\ tasks[t].pc = "transcribing" /\ calls[tasks[t].call].pc = "engine"
          /\ trs[transcriber].lock = tasks[t].call
          /\ tasks[u].pc = "transcribing" /\ calls[tasks[u].call].pc = "lock"

\* C28: nothing orders the inserts by recording start: whenever the
\* injection lock is free, any call waiting for it may take it, whichever
\* task made it; and there is an execution of two cycles in which every
\* event of the later recording's text is posted before any event of the
\* earlier recording's text.
C28_InsertOrderNotGuaranteed ==
    \A c \in 1..Len(ins) :
        ins[c].pc \in {"lock_typing", "lock_paste"} /\ insert_lock = 0
        => ENABLED acquire_insert_lock(c)
C28_Witness ==
    /\ Len(tasks) = 2
    /\ tasks[1].pc = "done" /\ tasks[2].pc = "done"
    /\ tasks[1].insert # 0 /\ tasks[2].insert # 0
    /\ ins[tasks[1].insert].pc = "done" /\ ins[tasks[2].insert].pc = "done"
    /\ \E i, j \in 1..Len(posted) :
          posted[i].by = tasks[1].insert /\ posted[j].by = tasks[2].insert
    /\ \A i, j \in 1..Len(posted) :
          posted[i].by = tasks[2].insert /\ posted[j].by = tasks[1].insert
          => i < j

\* C24: with engine calls and injections that end and locks granted
\* fairly, every transcribe call that waits for the model lock eventually
\* returns or raises, and every Finishing task that was started eventually
\* ends (its text inserted, no speech found, or in its except clause):
\* there comes a point after which no call and no task is left unfinished.
Settled ==
    /\ \A c \in 1..Len(calls) : calls[c].pc \in {"returned", "raised"}
    /\ \A t \in 1..Len(tasks) : tasks[t].pc = "done"
C24_EventualCompletion == <>[]Settled
\* two tasks ended, one with its text inserted and one in its except
\* clause after its call, made while the other held the model lock, raised
C24_Witness ==
    /\ Len(tasks) = 2 /\ TasksEnded
    /\ \E t, u \in 1..Len(tasks) :
          /\ tasks[t].error /\ calls[tasks[t].call].pc = "raised"
          /\ ~tasks[u].error /\ tasks[u].insert # 0
          /\ ins[tasks[u].insert].pc = "done"

\* C29: ensure_model_loaded blocks its caller until the load started at
\* construction has ended, and only the first caller of an instance ever
\* waits there: a call waiting in ensure_model_loaded while the load runs
\* is the first call made on its instance.
LoadRuns(k) == trs[k].load \in {"start", "loading"}
WaitsForLoad(c) == calls[c].pc = "ensure" /\ LoadRuns(calls[c].tr)
C29_OnlyFirstCallerBlocks ==
    \A c \in 1..Len(calls) :
        WaitsForLoad(c) => \A d \in 1..(c - 1) : calls[d].tr # calls[c].tr
\* C29, amended: every caller that arrives while the load thread runs
\* waits until that thread has ended, however many callers there are; a
\* caller goes past ensure_model_loaded only when the load thread has
\* ended, and once it has ended every caller can go past at once.
C29_BlocksWhileLoading ==
    /\ [](\A c \in 1..Len(calls) :
            calls[c].pc = "ensure" /\ ~LoadRuns(calls[c].tr)
            => ENABLED ensure_model_loaded(c))
    /\ [][\A c \in 1..Len(calls) :
            calls[c].pc = "ensure" /\ calls'[c].pc # "ensure"
            => ~LoadRuns(calls[c].tr)]_vars
\* two callers of one instance wait for its load at the same time
C29_Witness ==
    \E c, d \in 1..Len(calls) :
        /\ c < d /\ calls[c].tr = calls[d].tr
        /\ WaitsForLoad(c) /\ WaitsForLoad(d)

\* C30: stop_recording on an active session clears the recording flag,
\* never waits for the worker beyond its bounded join, and returns one
\* buffer holding the samples of all frames queued, in the order they were
\* captured, each int16 sample s as s / 32768, a value in [-1, 1]; when it
\* has returned the recorder is not recording.
Captured(w) == IF workers[w].pc = "put" THEN workers[w].n - 1 ELSE workers[w].n
C30_StopReturnsNormalizedAudio ==
    /\ [](\A b \in 1..Len(cbs) :
            /\ cbs[b].pc \in {"t_clr", "t_join"} => ENABLED stop_recording(b)
            /\ cbs[b].kind = "release" =>
                  cbs[b].chunks \o queues[audio_queue]
                      = [i \in 1..Captured(1) |-> Frame(1, i)]
            /\ Returned(b) /\ cbs[b].stopped =>
                  /\ ~recording
                  /\ cbs[b].audio.dtype = "float32"
                  /\ Len(cbs[b].audio.data) = chunk_size * Len(cbs[b].chunks)
                  /\ \A i \in 1..Len(cbs[b].chunks) : \A k \in 1..chunk_size :
                        LET v == cbs[b].audio.data[(i - 1) * chunk_size + k] IN
                        /\ v * 32768 = cbs[b].chunks[i].pcm[k] * Pow2(15)
                        /\ -Pow2(15) <= v /\ v <= Pow2(15))
    /\ [][\A b \in 1..Len(cbs) :
            cbs[b].pc = "t_empty" /\ cbs'[b].pc = "r_len"
            => queues[audio_queue] = <<>> /\ ~recording']_vars
\* a session of three frames, the first the largest int16 and the second
\* the smallest, stopped and returned as one buffer of three samples
C30_Witness ==
    \E b \in 1..Len(cbs) :
        /\ Returned(b) /\ cbs[b].stopped /\ ~recording
        /\ Len(cbs[b].chunks) = 3
        /\ cbs[b].chunks[1].pcm[1] = 32767 /\ cbs[b].audio.data[1] = 32767
        /\ cbs[b].chunks[2].pcm[1] = -32768
        /\ cbs[b].audio.data[chunk_size + 1] = -Pow2(15)

\* C38: the signals of a detector alternate, starting with a press: over
\* every sequence of notifications and stop() / start() calls, the
\* on_press callbacks started are as many as the on_release callbacks
\* started, or one more.
C38_SignalsAlternate == press_fired - release_fired \in {0, 1}

\* C39: running is true exactly when observation handles are installed
\* (so after a start() that failed it is false and a later start()
\* retries), and a start() while running leaves the installed handles as
\* they are.
C39_RunningIffHandles ==
    /\ [](running <=> handles # {})
    /\ [][running /\ running' => handles' = handles]_vars

\* C40: HotkeyListener._handle_event accepts the events its monitors
\* deliver: the type of a flags-changed event passes the handler's type
\* test, so a notification with control and option set and command clear,
\* delivered while unpressed, sets is_pressed and starts one on_press.
C40_FlagsChangedAccepted ==
    [][det_kind = "NSEvent" /\ notified' = notified + 1 =>
         /\ DeliveredType = AcceptedType
         /\ ~is_pressed /\ check_modifiers(last_flags') =>
               is_pressed' /\ press_fired' = press_fired + 1]_vars

\* C32: whatever the order in which the callback threads of the presses
\* and releases run, capture is not left on: when the combo is up and
\* every callback thread started so far has ended, is_recording is false
\* and the recorder's recording flag is false.
C32_NeverStuckRecording ==
    (~held /\ CallbacksEnded) => (~is_recording /\ ~recording)

\* C33: whenever no press or release callback is executing, the
\* orchestrator's is_recording and the recorder's recording are equal.
C33_FlagsAgree == CallbacksEnded => (is_recording <=> recording)

\* C34: session buffers are isolated: every frame in the queue a
\* start_recording created, and every frame in the buffer a stop_recording
\* drained, was read by the worker that start_recording started, so
\* a buffer holds frames of one session only; and audio_queue is not
\* replaced while a stop_recording is between its signal and the end of
\* its drain, so that it drains the queue of the session it stopped.
SessionOf(w) == w + 1
C34_SessionBuffersIsolated ==
    /\ [](/\ \A q \in 2..Len(queues) : \A i \in 1..Len(queues[q]) :
                SessionOf(queues[q][i].by) = q
          /\ \A b \in 1..Len(cbs) : \A i \in 1..Len(cbs[b].chunks) :
                \A j \in 1..Len(cbs[b].chunks) :
                    cbs[b].chunks[i].by = cbs[b].chunks[j].by)
    /\ [][(\E b \in 1..Len(cbs) : cbs[b].pc \in {"t_join", "t_empty", "t_get"})
             => audio_queue' = audio_queue]_vars

\* C37: the session statistics are exact under overlapping Finishing
\* tasks: once every task has ended, total_transcriptions is the number of
\* tasks whose stripped text was not empty and total_recording_time is the
\* sum of the recording durations of those tasks.
WithText == {t \in 1..Len(tasks) : tasks[t].text # <<>>}
RECURSIVE SumDuration(_)
SumDuration(S) ==
    IF S = {} THEN 0
    ELSE LET t == CHOOSE x \in S : TRUE IN tasks[t].duration + SumDuration(S \ {t})
C37_StatsExact ==
    TasksEnded =>
        /\ total_transcriptions = Cardinality(WithText)
        /\ total_recording_time = SumDuration(WithText)

\* C36: the locking discipline is free of deadlock: no Finishing task
\* holds the model lock and the injection lock at the same time (its
\* transcribe call has released the model lock before its insert_text
\* exists), and whoever holds a lock, the load thread included, can take
\* its next step without waiting for another lock; so never is every live
\* thread blocked on a lock.
HoldsModelLock(t) ==
    tasks[t].call # 0 /\ trs[calls[tasks[t].call].tr].lock = tasks[t].call
HoldsInsertLock(t) == tasks[t].insert # 0 /\ insert_lock = tasks[t].insert
C36_NoLockDeadlock ==
    /\ \A t \in 1..Len(tasks) :
          /\ ~(HoldsModelLock(t) /\ HoldsInsertLock(t))
          /\ tasks[t].insert # 0 => ~HoldsModelLock(t)
    /\ \A k \in 1..Len(trs) :
          /\ trs[k].lock = -1 => ENABLED load_model(k)
          /\ trs[k].lock > 0 =>
                ENABLED (\/ invoke_engine(trs[k].lock)
                         \/ engine_return(trs[k].lock)
                         \/ release_model_lock(trs[k].lock))
    /\ insert_lock # 0 =>
          ENABLED (\/ type_character(insert_lock) \/ paste_save(insert_lock)
                   \/ paste_clear(insert_lock) \/ paste_set(insert_lock)
                   \/ simulate_paste(insert_lock) \/ paste_restore(insert_lock)
                   \/ release_insert_lock(insert_lock))
\* one Finishing task holds the injection lock inside insert_text while
\* another holds the model lock with the engine running
C36_Witness ==
    \E t1, t2 \in 1..Len(tasks) :
        /\ t1 # t2
        /\ HoldsInsertLock(t1) /\ ~HoldsModelLock(t1)
        /\ HoldsModelLock(t2) /\ calls[tasks[t2].call].pc = "engine"

\* C35: each capture session leads to at most one text insertion: the
\* Finishing tasks started are no more than the sessions from which a
\* stop_recording returned frames, every task makes at most one insert_text
\* call and no two tasks share one, and a task whose stripped text is
\* empty makes none.
DrainedSessions ==
    {w \in 1..Len(workers) :
        \E b \in 1..Len(cbs) : \E i \in 1..Len(cbs[b].chunks) :
            Returned(b) /\ cbs[b].chunks[i].by = w}
C35_OneInsertPerSession ==
    /\ Len(tasks) <= Cardinality(DrainedSessions)
    /\ Len(ins) <= Len(tasks)
    /\ \A t \in 1..Len(tasks) :
          /\ tasks[t].insert # 0 => tasks[t].text # <<>>
          /\ \A u \in 1..Len(tasks) :
                tasks[t].insert # 0 /\ tasks[t].insert = tasks[u].insert => t = u

\* C31: a transcribe call whose audio reached the engine returns with
\* audio_duration = (number of samples sent to the engine) / 16000 and
\* rtf = transcribe_time / audio_duration, the duration never being zero:
\* no zero-length audio reaches the engine, empty input returns without
\* the timing keys, and shorter input is padded first; for 2.0 s of audio
\* (32000 samples) rtf is the engine latency divided by 2.
C31_DerivedMetrics ==
    \A c \in 1..Len(calls) :
        LET r == calls[c].result
            sent == Len(calls[c].audio.data)
        IN  /\ calls[c].pc = "engine" => sent > 0
            /\ calls[c].pc = "returned" => (r.timed <=> Len(calls[c].input.data) > 0)
            /\ r.timed =>
                  /\ sent >= 1600 /\ sent >= Len(calls[c].input.data)
                  /\ r.audio_duration.num > 0 /\ r.audio_duration.den > 0
                  /\ r.audio_duration.num * 16000 = sent * r.audio_duration.den
                  /\ r.rtf.den > 0
                  /\ r.rtf.num * r.audio_duration.num * r.transcribe_time.den
                        = r.rtf.den * r.audio_duration.den * r.transcribe_time.num
                  /\ sent = 32000 =>
                        r.rtf.num * 2 * r.transcribe_time.den
                            = r.rtf.den * r.transcribe_time.num
\* a call on 2.0 s of audio returned after an engine latency of 0.3 s with
\* rtf = 0.15
C31_Witness ==
    \E c \in 1..Len(calls) :
        /\ calls[c].pc = "returned" /\ calls[c].result.timed
        /\ Len(calls[c].input.data) = 32000
        /\ calls[c].result.transcribe_time = [num |-> 3, den |-> 10]
        /\ calls[c].result.audio_duration = [num |-> 2, den |-> 1]
        /\ calls[c].result.rtf = [num |-> 3, den |-> 20]

=============================================================================
